---- MODULE Spec2Model ----
(***************************************************************************)
(* Model of the crime-prediction service: server/features.py               *)
(* (FeatureCalculator) and server/app.py (the /api/predict handler).       *)
(*                                                                         *)
(* Representation choices                                                  *)
(*   - a Python str is a sequence of one-character strings;                *)
(*   - a date string "YYYY-MM-DD" is the tuple <<y, m, d>> of its fields,  *)
(*     a time string "HH:MM:SS" the tuple <<h, mi, s>>; None / "" is <<>>; *)
(*   - temperatures are whole degrees F, precipitation is in tenths of an  *)
(*     inch (0.9 in = 9), a float NaN is the sentinel NaN, None is NoneV;  *)
(*   - a probability is an integer number of millionths (0.33 = 330000),   *)
(*     and a quotient is kept exact as a fraction [n, d].                  *)
(***************************************************************************)
EXTENDS Integers, Sequences, FiniteSets, TLC

VARIABLES
    encoders,       \* features.ENCODERS, the bundle loaded at import
    model_file,     \* what models/cities/seattle/ensemble_models.pkl holds
    weather_cache,  \* feature_calculator.weather_cache
    lookups,        \* per cache key: calls of the resolver that went outside
    first,          \* per cache key: what the first call for it returned
    last,           \* the last call and what it answered
    arg,            \* the input of a function taken on its own
    threads         \* per request thread inside _get_weather_data: its
                    \* position, its cache key and its local result

vars ==
    <<encoders, model_file, weather_cache, lookups, first, last, arg, threads>>

----------------------------------------------------------------------------
(* Bounds of the model                                                     *)

\* most distinct keys the weather cache may hold in one behaviour
MaxKeys == 2
\* cap of the per-key external lookup counter
MaxLookups == 2
\* most estimators in an ensemble mapping
MaxEstimators == 3
\* request threads running at the same time
NumThreads == 2

----------------------------------------------------------------------------
(* Generic helpers                                                         *)

Max(a, b) == IF a >= b THEN a ELSE b

Min(a, b) == IF a <= b THEN a ELSE b

\* dict.get(k, default)
DictGet(f, k, default) == IF k \in DOMAIN f THEN f[k] ELSE default

\* d[k] = v on a dict
DictSet(f, k, v) == (k :> v) @@ f

\* float NaN and Python None, as values no observation can take
NaN == -1000

NoneV == -2000

----------------------------------------------------------------------------
(* _normalize_zip                                                          *)

DigitChars == <<"0", "1", "2", "3", "4", "5", "6", "7", "8", "9">>

RECURSIVE NatDigits(_)
NatDigits(n) ==
    IF n < 10 THEN <<DigitChars[n + 1]>>
    ELSE NatDigits(n \div 10) \o <<DigitChars[(n % 10) + 1]>>

IntStr(n) == IF n < 0 THEN <<"-">> \o NatDigits(0 - n) ELSE NatDigits(n)

\* str(zipcode): an int prints its digits, a float of integral value prints
\* them followed by ".0", None prints "None", a str is itself
PyStr(zipcode) ==
    CASE zipcode.type = "int" -> IntStr(zipcode.num)
      [] zipcode.type = "float" -> IntStr(zipcode.num) \o <<".", "0">>
      [] zipcode.type = "none" -> <<"N", "o", "n", "e">>
      [] OTHER -> zipcode.text

IsSpace(c) == c \in {" ", "\t", "\n"}

RECURSIVE LStrip(_)
LStrip(s) ==
    IF s = <<>> THEN s
    ELSE IF IsSpace(Head(s)) THEN LStrip(Tail(s)) ELSE s

RECURSIVE RStrip(_)
RStrip(s) ==
    IF s = <<>> THEN s
    ELSE IF IsSpace(s[Len(s)]) THEN RStrip(SubSeq(s, 1, Len(s) - 1)) ELSE s

Strip(s) == RStrip(LStrip(s))

HasDot(s) == \E i \in 1..Len(s) : s[i] = "."

\* s.split(".")[0]
RECURSIVE BeforeDot(_)
BeforeDot(s) ==
    IF s = <<>> THEN s
    ELSE IF Head(s) = "." THEN <<>>
    ELSE <<Head(s)>> \o BeforeDot(Tail(s))

Zeros(n) == [i \in 1..n |-> "0"]

\* str.zfill(width): pads on the left, after a leading sign; never truncates
Zfill(s, width) ==
    IF Len(s) >= width THEN s
    ELSE IF s # <<>> /\ Head(s) \in {"+", "-"}
         THEN <<Head(s)>> \o Zeros(width - Len(s)) \o Tail(s)
         ELSE Zeros(width - Len(s)) \o s

_normalize_zip(zipcode) ==
    LET z == Strip(PyStr(zipcode))
        z2 == IF HasDot(z) THEN BeforeDot(z) ELSE z
    IN Zfill(z2, 5)

\* a str value as an argument of _normalize_zip
StrArg(s) == [type |-> "str", num |-> 0, text |-> s]

IntArg(n) == [type |-> "int", num |-> n, text |-> <<>>]

FloatArg(n) == [type |-> "float", num |-> n, text |-> <<>>]

NoneArg == [type |-> "none", num |-> 0, text |-> <<>>]

----------------------------------------------------------------------------
(* Weather fallback table and the calendar                                 *)

WEATHER_FALLBACK ==
    (1 :> <<32, 8>>) @@ (2 :> <<35, 7>>) @@ (3 :> <<45, 10>>) @@
    (4 :> <<60, 12>>) @@ (5 :> <<70, 13>>) @@ (6 :> <<80, 14>>) @@
    (7 :> <<85, 15>>) @@ (8 :> <<83, 14>>) @@ (9 :> <<75, 13>>) @@
    (10 :> <<60, 10>>) @@ (11 :> <<45, 9>>) @@ (12 :> <<35, 8>>)

_get_weather_fallback(month) == DictGet(WEATHER_FALLBACK, month, <<60, 10>>)

IsLeap(y) == (y % 4 = 0 /\ y % 100 # 0) \/ y % 400 = 0

DaysInMonth(y, m) ==
    IF m = 2 THEN (IF IsLeap(y) THEN 29 ELSE 28)
    ELSE IF m \in {4, 6, 9, 11} THEN 30 ELSE 31

\* pd.to_datetime succeeds on a date string
ValidDate(d) ==
    /\ Len(d) = 3
    /\ d[2] \in 1..12
    /\ d[1] >= 1
    /\ d[3] >= 1 /\ d[3] <= DaysInMonth(d[1], d[2])

ValidTime(t) ==
    /\ Len(t) = 3
    /\ t[1] \in 0..23
    /\ t[2] \in 0..59
    /\ t[3] \in 0..59

\* Timestamp.dayofweek, Monday = 0
DayOfWeek(d) ==
    LET t == <<0, 3, 2, 5, 0, 3, 5, 1, 4, 6, 2, 4>>
        y == IF d[2] < 3 THEN d[1] - 1 ELSE d[1]
        sun0 == (y + (y \div 4) - (y \div 100) + (y \div 400) + t[d[2]] + d[3]) % 7
    IN (sun0 + 6) % 7

----------------------------------------------------------------------------
(* External collaborators: what pgeocode and Meteostat may answer          *)

\* nomi.query_postal_code: coordinates, NaN coordinates, or an exception
GeoOutcomes == {"coords", "nan", "raises"}

\* Daily(...).fetch(): an exception, an empty frame, or a frame whose first
\* row holds the columns `cols` with the values tavg and prcp
WxRaises == [kind |-> "raises", cols |-> {}, tavg |-> NoneV, prcp |-> NoneV]

WxEmpty == [kind |-> "empty", cols |-> {}, tavg |-> NoneV, prcp |-> NoneV]

WxRow(cols, t, p) ==
    [kind |-> "row", cols |-> cols,
     tavg |-> IF "tavg" \in cols THEN t ELSE NoneV,
     prcp |-> IF "prcp" \in cols THEN p ELSE NoneV]

BothCols == {"tavg", "prcp"}

WxRows ==
    {WxRow(BothCols, 50, 0), WxRow(BothCols, 45, 9),
     WxRow({"prcp"}, NoneV, 0), WxRow({"tavg"}, 50, NoneV),
     WxRow(BothCols, NaN, 0), WxRow(BothCols, 50, NaN)}

WxOutcomes == {WxRaises, WxEmpty} \cup WxRows

\* the answers of the two collaborators to one lookup; the weather provider
\* is asked only when the geocoder gave coordinates
Envs ==
    {[geo |-> g, wx |-> WxRaises] : g \in {"nan", "raises"}}
    \cup {[geo |-> "coords", wx |-> w] : w \in WxOutcomes}

----------------------------------------------------------------------------
(* FeatureCalculator._get_weather_data                                     *)

\* cache_key = (zipcode, date_str or month)
CacheKey(zipcode, month, date_str) ==
    <<zipcode, date_str, IF date_str # <<>> THEN 0 ELSE month>>

CacheHit_never(cache, key) == FALSE

\* if cache_key in self.weather_cache
CacheHit(cache, key) == key \in DOMAIN cache

\* tavg/prcp of the first row; a column that is absent gives None, and then
\* the monthly fallback; float() keeps a NaN cell as NaN
RowObservation(row, month) ==
    LET tavg == IF "tavg" \in row.cols THEN row.tavg ELSE NoneV
        prcp == IF "prcp" \in row.cols THEN row.prcp ELSE NoneV
    IN IF tavg = NoneV \/ prcp = NoneV
       THEN _get_weather_fallback(month)
       ELSE <<tavg, prcp>>

Unavailable_raise(month) == <<NoneV, NoneV>>

\* every branch that finds no live data, and the except handler, answer
\* self._get_weather_fallback(month)
Unavailable(month) == _get_weather_fallback(month)

\* the body of the try block on a cache miss: the observation, and how many
\* times the geocoder and the weather provider were called
FetchWeather(month, date_str, env) ==
    LET date == IF date_str = <<>> THEN <<2025, 1, 1>> ELSE date_str
    IN IF ~ValidDate(date)
       THEN [result |-> Unavailable(month), geo_calls |-> 0, wx_calls |-> 0]
       ELSE IF env.geo # "coords"
       THEN [result |-> Unavailable(month), geo_calls |-> 1, wx_calls |-> 0]
       ELSE IF env.wx.kind # "row"
       THEN [result |-> Unavailable(month), geo_calls |-> 1, wx_calls |-> 1]
       ELSE [result |-> RowObservation(env.wx, month),
             geo_calls |-> 1, wx_calls |-> 1]

\* self.weather_cache[cache_key] = result
CacheStore(cache, key, result) == DictSet(cache, key, result)

\* the whole method: the observation returned, the cache afterwards and the
\* external calls made
_get_weather_data(cache, zipcode, month, date_str, env) ==
    LET z == _normalize_zip(StrArg(zipcode))
        key == CacheKey(z, month, date_str)
    IN IF CacheHit(cache, key)
       THEN [result |-> cache[key], cache |-> cache, key |-> key,
             geo_calls |-> 0, wx_calls |-> 0]
       ELSE LET f == FetchWeather(month, date_str, env)
            IN [result |-> f.result,
                cache |-> CacheStore(cache, key, f.result), key |-> key,
                geo_calls |-> f.geo_calls, wx_calls |-> f.wx_calls]

----------------------------------------------------------------------------
(* load_encoders_and_models                                                *)

NoEncoder == [present |-> FALSE, classes |-> <<>>]

Encoder(classes) == [present |-> TRUE, classes |-> classes]

NoClusterModel == [present |-> FALSE, out |-> 1]

\* a fitted cluster model whose predict answers `out`, or raises when out = -1
ClusterModel(out) == [present |-> TRUE, out |-> out]

\* the encoders dict as first built, before any artifact is read
DefaultEncoders ==
    [season_label_encoder |-> NoEncoder,
     temp_label_encoder |-> NoEncoder,
     freq_map |-> <<>>,
     loc_cluster_model |-> NoClusterModel,
     zip_to_latlon |-> <<>>]

\* The artifacts directory: per artifact "absent", "corrupt" (joblib.load
\* raises) or its content.  The four loads run in order inside one try;
\* the first load that raises ends the loading and keeps what was loaded.
load_encoders_and_models(files) ==
    LET ok1 == files.season.state # "corrupt"
        ok2 == ok1 /\ files.temp.state # "corrupt"
        ok3 == ok2 /\ files.freq.state # "corrupt"
        ok4 == ok3 /\ files.cluster.state # "corrupt"
    IN [season_label_encoder |->
            IF ok1 /\ files.season.state = "present"
            THEN files.season.content ELSE DefaultEncoders.season_label_encoder,
        temp_label_encoder |->
            IF ok2 /\ files.temp.state = "present"
            THEN files.temp.content ELSE DefaultEncoders.temp_label_encoder,
        freq_map |->
            IF ok3 /\ files.freq.state = "present"
            THEN files.freq.content ELSE DefaultEncoders.freq_map,
        loc_cluster_model |->
            IF ok4 /\ files.cluster.state = "present"
            THEN files.cluster.content ELSE DefaultEncoders.loc_cluster_model,
        zip_to_latlon |-> DefaultEncoders.zip_to_latlon]

Absent == [state |-> "absent", content |-> <<>>]

Corrupt == [state |-> "corrupt", content |-> <<>>]

Present(content) == [state |-> "present", content |-> content]

Zip98144 == <<"9", "8", "1", "4", "4">>

Zip02134 == <<"0", "2", "1", "3", "4">>

\* the artifact directories the service starts from: nothing on disk, or
\* all four artifacts (a season encoder that lacks the label "1")
ArtifactDirs ==
    {[season |-> Absent, temp |-> Absent, freq |-> Absent, cluster |-> Absent],
     [season |-> Present(Encoder(<<"2", "3", "4">>)),
      temp |-> Present(Encoder(<<"Cold", "Cool", "Hot", "Warm">>)),
      freq |-> Present(Zip98144 :> 37),
      cluster |-> Present(ClusterModel(0))]}

\* and one more for the functions taken on their own: a frequency map that
\* does not load, which also keeps the cluster model from loading
AllArtifactDirs ==
    ArtifactDirs \cup
    {[season |-> Present(Encoder(<<"1", "2", "3", "4">>)),
      temp |-> Present(Encoder(<<"Cold", "Warm">>)),
      freq |-> Corrupt,
      cluster |-> Present(ClusterModel(2))]}

----------------------------------------------------------------------------
(* FeatureCalculator: calendar indicators and categorical encoders         *)

\* a comparison with a float NaN is false
Leq(a, b) == a # NaN /\ b # NaN /\ a <= b

Gt(a, b) == a # NaN /\ b # NaN /\ a > b

IsWeekend(day_of_week) == IF day_of_week \in {5, 6} THEN 1 ELSE 0

IsNight(hour) == IF hour >= 18 \/ hour <= 6 THEN 1 ELSE 0

IsRushHour(hour) ==
    IF (7 <= hour /\ hour <= 9) \/ (16 <= hour /\ hour <= 18) THEN 1 ELSE 0

\* the hour test alone, on any day of the week
IsBusinessHours_anyday(hour, day_of_week) ==
    IF 9 <= hour /\ hour <= 17 THEN 1 ELSE 0

IsBusinessHours(hour, day_of_week) ==
    IF 9 <= hour /\ hour <= 17 /\ day_of_week < 5 THEN 1 ELSE 0

\* season = (month % 12 + 3) // 3
Season(month) == ((month % 12) + 3) \div 3

IsRainy(prcp) == IF Gt(prcp, 0) THEN 1 ELSE 0

_categorize_temperature(tavg) ==
    IF Leq(tavg, 40) THEN "Cold"
    ELSE IF Leq(tavg, 60) THEN "Cool"
    ELSE IF Leq(tavg, 80) THEN "Warm"
    ELSE "Hot"

\* LabelEncoder.transform([label])[0]: the position of the label among the
\* classes, from 0; -1 stands for the ValueError of an unseen label
Transform(encoder, label) ==
    IF \E i \in 1..Len(encoder.classes) : encoder.classes[i] = label
    THEN (CHOOSE i \in 1..Len(encoder.classes) : encoder.classes[i] = label) - 1
    ELSE -1

_encode_season(enc, season) ==
    LET code == Transform(enc.season_label_encoder, DigitChars[season + 1])
    IN IF enc.season_label_encoder.present /\ code # -1
       THEN code
       ELSE Max(0, Min(3, season - 1))

TempFallbackMapping == ("Cold" :> 0) @@ ("Cool" :> 1) @@ ("Warm" :> 2) @@ ("Hot" :> 3)

_encode_temp_category(enc, temp_cat) ==
    LET code == Transform(enc.temp_label_encoder, temp_cat)
    IN IF ~enc.temp_label_encoder.present \/ code = -1
       THEN DictGet(TempFallbackMapping, temp_cat, 1)
       ELSE code

_get_zcta5_frequency(enc, zipcode) ==
    DictGet(enc.freq_map, _normalize_zip(StrArg(zipcode)), 0)

_classify_location_heuristic(zipcode) == 1

\* the model is used whenever one is loaded, coordinates or not
_predict_location_cluster_any(enc, zipcode) ==
    IF enc.loc_cluster_model.present /\ enc.loc_cluster_model.out # -1
    THEN enc.loc_cluster_model.out
    ELSE _classify_location_heuristic(zipcode)

\* how many times loc_model.predict is invoked (line 533)
ClusterPredictCalls(enc, zipcode) ==
    IF /\ enc.loc_cluster_model.present
       /\ _normalize_zip(StrArg(zipcode)) \in DOMAIN enc.zip_to_latlon
    THEN 1 ELSE 0

\* if loc_model and zipcode in zip_to_coords: the model's answer, unless its
\* predict raises; otherwise the heuristic
_predict_location_cluster(enc, zipcode) ==
    LET z == _normalize_zip(StrArg(zipcode))
    IN IF /\ enc.loc_cluster_model.present
          /\ z \in DOMAIN enc.zip_to_latlon
          /\ enc.loc_cluster_model.out # -1
       THEN enc.loc_cluster_model.out
       ELSE _classify_location_heuristic(z)

----------------------------------------------------------------------------
(* FeatureCalculator.compute_features                                      *)

\* if month == 11 and tavg == 45 and prcp == 0.9
OverrideApplies(month, tavg, prcp) == month = 11 /\ tavg = 45 /\ prcp = 9

\* The block under that test: a second, direct geocoder and Meteostat lookup
\* whose first row replaces tavg and then prcp.  A KeyError on an absent
\* column, like any exception, ends the block and keeps what was assigned
\* before it.  The weather cache is not touched.
DirectFetch(tavg, prcp, env) ==
    IF env.geo = "raises"
    THEN [tavg |-> tavg, prcp |-> prcp, geo_calls |-> 1, wx_calls |-> 0]
    ELSE IF env.geo = "nan"
    THEN [tavg |-> tavg, prcp |-> prcp, geo_calls |-> 1, wx_calls |-> 0]
    ELSE IF env.wx.kind # "row"
    THEN [tavg |-> tavg, prcp |-> prcp, geo_calls |-> 1, wx_calls |-> 1]
    ELSE IF "tavg" \notin env.wx.cols
    THEN [tavg |-> tavg, prcp |-> prcp, geo_calls |-> 1, wx_calls |-> 1]
    ELSE IF "prcp" \notin env.wx.cols
    THEN [tavg |-> env.wx.tavg, prcp |-> prcp, geo_calls |-> 1, wx_calls |-> 1]
    ELSE [tavg |-> env.wx.tavg, prcp |-> env.wx.prcp,
          geo_calls |-> 1, wx_calls |-> 1]

NoDirectFetch(tavg, prcp) ==
    [tavg |-> tavg, prcp |-> prcp, geo_calls |-> 0, wx_calls |-> 0]

\* lines 249-269: the values that go into the record, given what
\* _get_weather_data returned
WeatherFeatures(month, tavg, prcp, env2) ==
    IF OverrideApplies(month, tavg, prcp)
    THEN DirectFetch(tavg, prcp, env2)
    ELSE NoDirectFetch(tavg, prcp)

\* the features dict (lines 286-306)
BuildFeatures(enc, zipcode, date_str, time_str, tavg, prcp, is_rainy) ==
    LET hour == time_str[1]
        day_of_week == DayOfWeek(date_str)
        month == date_str[2]
    IN [date |-> date_str,
        time |-> time_str,
        zip_code |-> zipcode,
        tavg |-> tavg,
        prcp |-> prcp,
        hour |-> hour,
        day_of_week |-> day_of_week,
        month |-> month,
        is_weekend |-> IsWeekend(day_of_week),
        is_night |-> IsNight(hour),
        is_rush_hour |-> IsRushHour(hour),
        is_business_hours |-> IsBusinessHours(hour, day_of_week),
        ZCTA5_freq_encoded |-> _get_zcta5_frequency(enc, zipcode),
        season_encoded |-> _encode_season(enc, Season(month)),
        temp_category_encoded |->
            _encode_temp_category(enc, _categorize_temperature(tavg)),
        is_rainy |-> is_rainy,
        loc_cluster |-> _predict_location_cluster(enc, zipcode)]

\* a parse that lets an out-of-range day or hour through
ValidDateTime_lenient(date_str, time_str) ==
    date_str # <<>> /\ time_str # <<>>

\* pd.to_datetime(f"{date_str} {time_str}") succeeds
ValidDateTime(date_str, time_str) == ValidDate(date_str) /\ ValidTime(time_str)

NoFeatures == [date |-> <<>>]

\* The whole method.  ok = FALSE is the ValueError of an unparseable
\* date+time, raised before any weather lookup.  df is the one-row DataFrame.
compute_features(cache, enc, zipcode, date_str, time_str, env, env2) ==
    LET z == _normalize_zip(zipcode)
    IN IF ~ValidDateTime(date_str, time_str)
       THEN [ok |-> FALSE, df |-> <<>>, cache |-> cache,
             resolved |-> <<NoneV, NoneV>>,
             res_geo |-> 0, res_wx |-> 0, own_geo |-> 0, own_wx |-> 0]
       ELSE LET month == date_str[2]
                w == _get_weather_data(cache, z, month, date_str, env)
                is_rainy == IsRainy(w.result[2])
                o == WeatherFeatures(month, w.result[1], w.result[2], env2)
            IN [ok |-> TRUE,
                df |-> <<BuildFeatures(enc, z, date_str, time_str,
                                       o.tavg, o.prcp, is_rainy)>>,
                cache |-> w.cache,
                resolved |-> w.result,
                res_geo |-> w.geo_calls, res_wx |-> w.wx_calls,
                own_geo |-> o.geo_calls, own_wx |-> o.wx_calls]

----------------------------------------------------------------------------
(* FeatureCalculator.get_feature_vector                                    *)

feature_order ==
    <<"tavg", "prcp", "hour", "day_of_week", "month", "is_weekend",
      "is_night", "is_rush_hour", "is_business_hours", "ZCTA5_freq_encoded",
      "season_encoded", "temp_category_encoded", "is_rainy", "loc_cluster">>

\* the loop over feature_order from position i, with the vector built so far;
\* the first name that is not in the row raises "Missing feature"
RECURSIVE VectorLoop(_, _, _, _)
VectorLoop(order, row, i, vector) ==
    IF i > Len(order)
    THEN [ok |-> TRUE, error |-> "None", vector |-> vector]
    ELSE IF order[i] \notin DOMAIN row
    THEN [ok |-> FALSE, error |-> "Missing feature", vector |-> <<>>]
    ELSE VectorLoop(order, row, i + 1, Append(vector, row[order[i]]))

feature_order_swapped ==
    <<"prcp", "tavg", "hour", "day_of_week", "month", "is_weekend",
      "is_night", "is_rush_hour", "is_business_hours", "ZCTA5_freq_encoded",
      "season_encoded", "temp_category_encoded", "is_rainy", "loc_cluster">>

get_feature_vector_swapped(df) ==
    IF Len(df) = 0
    THEN [ok |-> FALSE, error |-> "Empty DataFrame", vector |-> <<>>]
    ELSE VectorLoop(feature_order_swapped, df[1], 1, <<>>)

get_feature_vector(df) ==
    IF Len(df) = 0
    THEN [ok |-> FALSE, error |-> "Empty DataFrame", vector |-> <<>>]
    ELSE VectorLoop(feature_order, df[1], 1, <<>>)

----------------------------------------------------------------------------
(* app.py: model handles and the aggregation of estimator outputs          *)

\* one in millionths: the unit of an estimator's output
One == 1000000

\* An estimator, by what its predict does on the feature vector: it has no
\* predict attribute, predict raises, or predict returns the sequence out.
NoPredict == [kind |-> "nopredict", out |-> <<>>]

Raises == [kind |-> "raises", out |-> <<>>]

Returns(out) == [kind |-> "returns", out |-> out]

NoModel == [type |-> "none", items |-> <<>>]

SingleModel(est) == [type |-> "single", items |-> <<est>>]

\* a dict of estimators, in the order of model.items()
DictModel(items) == [type |-> "dict", items |-> items]

\* load_city_model: None when the file is absent or joblib.load raises
load_city_model(file) ==
    IF file.state = "present" THEN file.content ELSE NoModel

\* m.predict([feature_vector]) gives a value that float() accepts:
\* val = p[0] if len(p) else p, and float() of an empty sequence raises
Produces(m) == m.kind = "returns" /\ Len(m.out) > 0

RECURSIVE SumSeq(_)
SumSeq(q) == IF q = <<>> THEN 0 ELSE Head(q) + SumSeq(Tail(q))

\* the for loop over model.items(): the predictions appended, the
\* estimators skipped and the predict calls made, from position i on
RECURSIVE EnsembleLoop(_, _, _)
EnsembleLoop(items, i, acc) ==
    IF i > Len(items) THEN acc
    ELSE LET m == items[i]
         IN IF m.kind = "nopredict"
            THEN EnsembleLoop(items, i + 1,
                              [acc EXCEPT !.skips = @ + 1])
            ELSE IF Produces(m)
            THEN EnsembleLoop(items, i + 1,
                              [acc EXCEPT !.preds = Append(@, m.out[1]),
                                          !.calls = @ + 1])
            ELSE EnsembleLoop(items, i + 1,
                              [acc EXCEPT !.skips = @ + 1, !.calls = @ + 1])

NoRaw == [n |-> 0, d |-> 0]

EnsembleMean_all(preds, total) ==
    IF preds = <<>>
    THEN [ok |-> FALSE, raw |-> NoRaw]
    ELSE [ok |-> TRUE, raw |-> [n |-> SumSeq(preds), d |-> total * One]]

EnsembleMean_default(preds, total) ==
    IF preds = <<>>
    THEN [ok |-> TRUE, raw |-> [n |-> 0, d |-> One]]
    ELSE [ok |-> TRUE, raw |-> [n |-> SumSeq(preds), d |-> Len(preds) * One]]

\* if not preds: raise RuntimeError; raw = sum(preds) / len(preds).
\* total is the number of estimators in the mapping.
EnsembleMean(preds, total) ==
    IF preds = <<>>
    THEN [ok |-> FALSE, raw |-> NoRaw]
    ELSE [ok |-> TRUE, raw |-> [n |-> SumSeq(preds), d |-> Len(preds) * One]]

\* lines 114-134: the raw output, or ok = FALSE when the block raises
Aggregate(model) ==
    IF model.type = "dict"
    THEN LET acc == EnsembleLoop(model.items, 1,
                                 [preds |-> <<>>, skips |-> 0, calls |-> 0])
             mean == EnsembleMean(acc.preds, Len(model.items))
         IN [ok |-> mean.ok, raw |-> mean.raw,
             skips |-> acc.skips, calls |-> acc.calls]
    ELSE LET m == model.items[1]
         IN IF Produces(m)
            THEN [ok |-> TRUE, raw |-> [n |-> m.out[1], d |-> One],
                  skips |-> 0, calls |-> 1]
            ELSE [ok |-> FALSE, raw |-> NoRaw, skips |-> 0,
                  calls |-> IF m.kind = "nopredict" THEN 0 ELSE 1]

----------------------------------------------------------------------------
(* app.py: confidence, reliability, message and category                   *)

\* rate < num/den, for a fraction rate
FracLt(r, num, den) == r.n * den < num * r.d

FracGe(r, num, den) == ~FracLt(r, num, den)

\* max(rate, 1.0 - rate)
Confidence(rate) == [n |-> Max(rate.n, rate.d - rate.n), d |-> rate.d]

IsGood_strict(confidence) ==
    FracGe(confidence, 7, 10) /\ confidence.n * 10 # 7 * confidence.d

\* confidence >= 0.7
IsGood(confidence) == FracGe(confidence, 7, 10)

MsgHigher == "Model is confident: higher risk period based on historical data."

MsgLower == "Model is confident: lower risk period based on historical data."

MsgUncertain ==
    "Model is uncertain here; not enough historical data for a strong prediction."

Message(rate, good) ==
    IF good
    THEN (IF FracGe(rate, 1, 2) THEN MsgHigher ELSE MsgLower)
    ELSE MsgUncertain

Category_closed(rate) ==
    IF FracLt(rate, 33, 100) \/ rate.n * 100 = 33 * rate.d THEN "Low"
    ELSE IF FracLt(rate, 66, 100) \/ rate.n * 100 = 66 * rate.d THEN "Medium"
    ELSE "High"

\* if rate < 0.33: Low; elif rate < 0.66: Medium; else High
Category(rate) ==
    IF FracLt(rate, 33, 100) THEN "Low"
    ELSE IF FracLt(rate, 66, 100) THEN "Medium"
    ELSE "High"

Zero == [n |-> 0, d |-> 1]

\* the prediction dict as first built (lines 97-107)
PredictionDefault ==
    [crime_rate |-> Zero,
     crime_category |-> "Low",
     confidence |-> Zero,
     factors |-> <<>>,
     error |-> "None",
     raw_output |-> NoRaw,
     is_good_prediction |-> FALSE,
     has_enough_history |-> TRUE,
     message |-> ""]

\* lines 136-161, for the raw output of a successful aggregation
Classified(raw) ==
    LET confidence == Confidence(raw)
        good == IsGood(confidence)
    IN [PredictionDefault EXCEPT
           !.raw_output = raw,
           !.crime_rate = raw,
           !.confidence = confidence,
           !.is_good_prediction = good,
           !.has_enough_history = good,
           !.message = Message(raw, good),
           !.crime_category = Category(raw)]

ErrNotLoaded == "Model for city 'seattle' not loaded"

ErrFailed == "Model prediction failed"

\* lines 109-170: the prediction placed in the response
PredictionFor(model) ==
    IF model.type = "none"
    THEN [PredictionDefault EXCEPT !.error = ErrNotLoaded]
    ELSE LET a == Aggregate(model)
         IN IF a.ok THEN Classified(a.raw)
            ELSE [PredictionDefault EXCEPT !.error = ErrFailed]

----------------------------------------------------------------------------
(* app.py: the /api/predict handler                                        *)

\* truth value of a JSON field
Truthy(v) ==
    CASE v.type = "none" -> FALSE
      [] v.type = "str" -> v.text # <<>>
      [] OTHER -> v.num # 0

ErrExpected == "Expected JSON with fields: date, time, zip_code"

ErrDatetime == "Invalid datetime"

Failure(status, error, cache) ==
    [status |-> status, success |-> FALSE, error |-> error,
     features |-> NoFeatures, feature_vector |-> <<>>,
     prediction |-> PredictionDefault, model |-> NoModel,
     cache |-> cache, resolved |-> <<NoneV, NoneV>>,
     res_geo |-> 0, res_wx |-> 0, own_geo |-> 0, own_wx |-> 0,
     model_loads |-> 0]

\* The whole handler: the response (status and body), the weather cache
\* afterwards, the external calls made on the way and the number of times
\* the model artifact was read (load_city_model, line 95).
predict(cache, enc, data, env, env2, file) ==
    IF ~(data.date # <<>> /\ data.time # <<>> /\ Truthy(data.zip_code))
    THEN Failure(400, ErrExpected, cache)
    ELSE LET c == compute_features(cache, enc, data.zip_code, data.date,
                                   data.time, env, env2)
         IN IF ~c.ok
            THEN Failure(500, ErrDatetime, c.cache)
            ELSE LET v == get_feature_vector(c.df)
                     model == load_city_model(file)
                 IN IF ~v.ok
                    THEN Failure(500, v.error, c.cache)
                    ELSE [status |-> 200, success |-> TRUE, error |-> "None",
                          features |-> c.df[1],
                          feature_vector |-> v.vector,
                          prediction |-> PredictionFor(model),
                          model |-> model,
                          cache |-> c.cache, resolved |-> c.resolved,
                          res_geo |-> c.res_geo, res_wx |-> c.res_wx,
                          own_geo |-> c.own_geo, own_wx |-> c.own_wx,
                          model_loads |-> 1]

----------------------------------------------------------------------------
(* State                                                                   *)

NoCall == [op |-> "none"]

NoEnv == [geo |-> "unused", wx |-> WxRaises]

NoArg == [kind |-> "none"]

\* what models/cities/seattle/ensemble_models.pkl may hold
ModelFiles ==
    {Absent, Corrupt,
     Present(SingleModel(Returns(<<900000>>))),
     Present(DictModel(<<Returns(<<200000>>), Raises, Returns(<<600000>>)>>)),
     Present(DictModel(<<NoPredict, Raises>>))}

\* ENCODERS = load_encoders_and_models() at import, then
\* feature_calculator = FeatureCalculator(): an empty weather cache
Init ==
    /\ encoders \in {load_encoders_and_models(files) : files \in ArtifactDirs}
    /\ model_file \in ModelFiles
    /\ weather_cache = <<>>
    /\ lookups = <<>>
    /\ first = <<>>
    /\ last = NoCall
    /\ arg = NoArg
    /\ threads = <<>>

----------------------------------------------------------------------------
(* Direct use of the resolver: a sequence of _get_weather_data calls       *)

NovDate == <<2025, 11, 15>>

JunDate == <<2025, 6, 15>>

BadDate == <<2025, 2, 30>>

Zip2134 == <<"2", "1", "3", "4">>

\* (zipcode, date_str, month) arguments: no date with each month, a date with
\* its month under three spellings of two ZIP codes, and a date string that
\* does not parse
ResolveArgs ==
    {[zipcode |-> Zip98144, date_str |-> <<>>, month |-> m] : m \in 1..12}
    \cup {[zipcode |-> z, date_str |-> NovDate, month |-> 11] :
            z \in {Zip98144, Zip98144 \o <<".", "0">>, Zip2134}}
    \cup {[zipcode |-> Zip2134, date_str |-> <<>>, month |-> 11],
          [zipcode |-> Zip98144, date_str |-> BadDate, month |-> 2]}

\* the collaborators' answers offered to a direct call
ResolveEnvs ==
    {e \in Envs : e.wx \notin {WxRow(BothCols, 45, 9), WxRow(BothCols, 50, NaN),
                              WxRow({"tavg"}, 50, NoneV)}}

\* no live source: the geocoder has no coordinates or raises, or the weather
\* query raises
NoLiveSource(env) ==
    \/ env.geo \in {"nan", "raises"}
    \/ env.geo = "coords" /\ env.wx.kind = "raises"

ResolveCall ==
    \E a \in ResolveArgs :
        LET key == CacheKey(_normalize_zip(StrArg(a.zipcode)), a.month, a.date_str)
            before == key \in DOMAIN weather_cache
        IN /\ before \/ Cardinality(DOMAIN weather_cache) < MaxKeys
           /\ \E env \in IF before THEN {NoEnv} ELSE ResolveEnvs :
                LET r == _get_weather_data(weather_cache, a.zipcode, a.month,
                                           a.date_str, env)
                    ext == Max(r.geo_calls, r.wx_calls)
                IN /\ DictGet(lookups, key, 0) + ext <= MaxLookups
                   /\ weather_cache' = r.cache
                   /\ lookups' = DictSet(lookups, key, DictGet(lookups, key, 0) + ext)
                   /\ first' = IF key \in DOMAIN first THEN first
                               ELSE DictSet(first, key,
                                            [result |-> r.result,
                                             no_live |-> NoLiveSource(env)])
                   /\ last' = [op |-> "resolve", key |-> key, month |-> a.month,
                               date_str |-> a.date_str,
                               cached_before |-> before, env |-> env,
                               result |-> r.result,
                               geo_calls |-> r.geo_calls, wx_calls |-> r.wx_calls]
                   /\ UNCHANGED <<encoders, model_file, arg, threads>>

InitResolve == Init /\ encoders = DefaultEncoders /\ model_file = Absent

SpecResolve == InitResolve /\ [][ResolveCall]_vars

----------------------------------------------------------------------------
(* The service: requests to /api/predict                                   *)

GoodTime == <<14, 30, 0>>

BadTime == <<25, 0, 0>>

\* request bodies: three queries over two ZIP codes (one a string, one an
\* int) and two dates, and bodies with a field missing or a date or time that does not parse
RequestData ==
    {[date |-> NovDate, time |-> GoodTime, zip_code |-> StrArg(Zip98144)],
     [date |-> NovDate, time |-> GoodTime, zip_code |-> IntArg(2134)],
     [date |-> JunDate, time |-> GoodTime, zip_code |-> StrArg(Zip98144)]}
    \cup {[date |-> <<>>, time |-> GoodTime, zip_code |-> StrArg(Zip98144)],
          [date |-> NovDate, time |-> <<>>, zip_code |-> StrArg(Zip98144)],
          [date |-> NovDate, time |-> GoodTime, zip_code |-> NoneArg],
          [date |-> NovDate, time |-> GoodTime, zip_code |-> IntArg(0)],
          [date |-> BadDate, time |-> GoodTime, zip_code |-> StrArg(Zip98144)],
          [date |-> JunDate, time |-> BadTime, zip_code |-> IntArg(2134)]}

\* the collaborators' answers offered to the resolver during a request
PredictEnvs ==
    {[geo |-> "nan", wx |-> WxRaises],
     [geo |-> "coords", wx |-> WxEmpty],
     [geo |-> "coords", wx |-> WxRow(BothCols, 50, 0)],
     [geo |-> "coords", wx |-> WxRow(BothCols, NaN, 0)]}

\* and to the direct fetch of compute_features
DirectEnvs ==
    {[geo |-> "raises", wx |-> WxRaises],
     [geo |-> "coords", wx |-> WxEmpty],
     [geo |-> "coords", wx |-> WxRow(BothCols, 50, 0)],
     [geo |-> "coords", wx |-> WxRow({"tavg"}, 50, NoneV)]}

NoKey == <<<<>>, <<>>, 0>>

Predict ==
    \E data \in RequestData :
        LET valid == /\ data.date # <<>> /\ data.time # <<>>
                     /\ Truthy(data.zip_code)
                     /\ ValidDateTime(data.date, data.time)
            z == _normalize_zip(data.zip_code)
            key == IF valid THEN CacheKey(z, data.date[2], data.date) ELSE NoKey
            before == key \in DOMAIN weather_cache
        IN /\ ~valid \/ before \/ Cardinality(DOMAIN weather_cache) < MaxKeys
           /\ \E env \in IF valid /\ ~before THEN PredictEnvs ELSE {NoEnv} :
              \E env2 \in
                 IF valid /\ LET w == _get_weather_data(weather_cache, z,
                                          data.date[2], data.date, env).result
                             IN OverrideApplies(data.date[2], w[1], w[2])
                 THEN DirectEnvs ELSE {NoEnv} :
              \E r \in {predict(weather_cache, encoders, data, env, env2,
                                model_file)} :
                LET ext == Max(r.res_geo, r.res_wx)
                IN /\ weather_cache' = r.cache
                   /\ lookups' = IF valid
                                 THEN DictSet(lookups, key,
                                              DictGet(lookups, key, 0) + ext)
                                 ELSE lookups
                   /\ first' = IF ~valid \/ key \in DOMAIN first THEN first
                               ELSE DictSet(first, key,
                                            [result |-> r.resolved,
                                             no_live |-> NoLiveSource(env)])
                   /\ last' = [op |-> "predict", data |-> data, key |-> key,
                               cached_before |-> before,
                               status |-> r.status, success |-> r.success,
                               error |-> r.error, features |-> r.features,
                               feature_vector |-> r.feature_vector,
                               prediction |-> r.prediction, model |-> r.model,
                               resolved |-> r.resolved,
                               res_geo |-> r.res_geo, res_wx |-> r.res_wx,
                               own_geo |-> r.own_geo, own_wx |-> r.own_wx,
                               cache_written |-> r.cache # weather_cache,
                               model_loads |-> r.model_loads]
                   /\ UNCHANGED <<encoders, model_file, arg, threads>>

\* the environment replaces the model file (a deployment); the next request
\* loads whatever is there
ReplaceModelFile ==
    \E file \in ModelFiles :
        /\ file # model_file
        /\ model_file' = file
        /\ UNCHANGED <<encoders, weather_cache, lookups, first, last, arg, threads>>

Next == Predict \/ ReplaceModelFile

Spec == Init /\ [][Next]_vars

----------------------------------------------------------------------------
(* compute_features and get_feature_vector on their own                    *)

\* row without the field f
Drop(row, f) == [g \in DOMAIN row \ {f} |-> row[g]]

\* a row as compute_features builds it
SampleRow(enc) == BuildFeatures(enc, Zip98144, JunDate, GoodTime, 80, 14, 1)

\* DataFrames handed to get_feature_vector: empty, a full row, and the row
\* without one of its 17 fields
VectorArgs(enc) ==
    {<<>>, <<SampleRow(enc)>>}
    \cup {<<Drop(SampleRow(enc), f)>> : f \in DOMAIN SampleRow(enc)}

FeatureArgs ==
    {[kind |-> "query", data |-> d, env |-> e, env2 |-> e2] :
        d \in RequestData, e \in PredictEnvs, e2 \in DirectEnvs}

InitVector ==
    /\ encoders \in {load_encoders_and_models(files) : files \in AllArtifactDirs}
    /\ model_file = Absent
    /\ weather_cache = <<>>
    /\ lookups = <<>>
    /\ first = <<>>
    /\ last = NoCall
    /\ arg \in FeatureArgs \cup {[kind |-> "df", df |-> df] : df \in VectorArgs(encoders)}
    /\ threads = <<>>

\* compute_features on a fresh calculator, then get_feature_vector on the
\* DataFrame it returned
FeaturesCall ==
    /\ arg.kind = "query"
    /\ \E c \in {compute_features(weather_cache, encoders, arg.data.zip_code,
                                  arg.data.date, arg.data.time,
                                  arg.env, arg.env2)} :
          /\ weather_cache' = c.cache
          /\ last' = [op |-> "features", ok |-> c.ok, df |-> c.df,
                      cluster_calls |->
                          IF c.ok
                          THEN ClusterPredictCalls(encoders,
                                   _normalize_zip(arg.data.zip_code))
                          ELSE 0,
                      out |-> IF c.ok THEN get_feature_vector(c.df)
                              ELSE [ok |-> FALSE, error |-> ErrDatetime,
                                    vector |-> <<>>]]
    /\ UNCHANGED <<encoders, model_file, lookups, first, arg, threads>>

\* get_feature_vector on a DataFrame from elsewhere
VectorCall ==
    /\ arg.kind = "df"
    /\ last' = [op |-> "vector", ok |-> TRUE, df |-> arg.df,
                out |-> get_feature_vector(arg.df)]
    /\ UNCHANGED <<encoders, model_file, weather_cache, lookups, first, arg, threads>>

NextVector == FeaturesCall \/ VectorCall

SpecVector == InitVector /\ [][NextVector]_vars

----------------------------------------------------------------------------
(* The aggregation block on its own, over every small model handle         *)

\* estimator outputs, in millionths
ProbValues ==
    {0, 200000, 300000, 329999, 330000, 500000, 600000, 660000, 660001,
     700000, 1000000}

Estimators ==
    {NoPredict, Raises, Returns(<<>>)} \cup {Returns(<<v>>) : v \in ProbValues}

AggregateModels ==
    {NoModel} \cup {SingleModel(e) : e \in Estimators}
    \cup {DictModel(q) :
            q \in UNION {[1..n -> Estimators] : n \in 0..MaxEstimators}}

InitAggregate ==
    /\ encoders = DefaultEncoders
    /\ model_file = Absent
    /\ weather_cache = <<>>
    /\ lookups = <<>>
    /\ first = <<>>
    /\ last = NoCall
    /\ arg \in {[kind |-> "model", model |-> m] : m \in AggregateModels}
    /\ threads = <<>>

AggregateCall ==
    /\ arg.kind = "model"
    /\ last' = [op |-> "aggregate", model |-> arg.model,
                prediction |-> PredictionFor(arg.model),
                skips |-> IF arg.model.type = "dict"
                          THEN Aggregate(arg.model).skips ELSE 0,
                calls |-> IF arg.model.type = "none"
                          THEN 0 ELSE Aggregate(arg.model).calls]
    /\ UNCHANGED <<encoders, model_file, weather_cache, lookups, first, arg, threads>>

SpecAggregate == InitAggregate /\ [][AggregateCall]_vars

----------------------------------------------------------------------------
(* Properties of the resolver                                              *)

\* C1: in a sequence of _get_weather_data calls, a call whose key is already
\* cached makes no geocoder and no weather-provider call and returns the
\* cached observation; so no key is looked up externally more than once, and
\* every call for a key returns what the first call for that key returned.
C1_AtMostOneLookupPerKey ==
    /\ \A k \in DOMAIN lookups : lookups[k] <= 1
    /\ last.op = "resolve" =>
          /\ last.result = first[last.key].result
          /\ last.cached_before =>
                /\ last.geo_calls = 0
                /\ last.wx_calls = 0
                /\ weather_cache[last.key] = last.result

\* a repeated call for a key whose first call went to the geocoder, while a
\* second key is cached too
C1_Witness ==
    /\ last.op = "resolve"
    /\ last.cached_before
    /\ lookups[last.key] = 1
    /\ Cardinality(DOMAIN weather_cache) >= 2

\* a cell of the returned row is missing: its column is absent or it is NaN
RowIncomplete(row) ==
    \/ "tavg" \notin row.cols
    \/ "prcp" \notin row.cols
    \/ row.tavg = NaN
    \/ row.prcp = NaN

\* C3: when the weather provider returns no row, or a row in which tavg or
\* prcp is missing, the call returns and caches the monthly fallback of the
\* requested month, never an observation built from the incomplete row.
C3_IncompleteRowGivesFallback ==
    (/\ last.op = "resolve"
     /\ ~last.cached_before
     /\ ValidDate(IF last.date_str = <<>> THEN NovDate ELSE last.date_str)
     /\ last.env.geo = "coords"
     /\ \/ last.env.wx.kind = "empty"
        \/ last.env.wx.kind = "row" /\ RowIncomplete(last.env.wx))
    => /\ last.result = WEATHER_FALLBACK[last.month]
       /\ weather_cache[last.key] = WEATHER_FALLBACK[last.month]

\* C4: with no live source (no coordinates, or the geocoder or the weather
\* query raises) a call for month m in 1..12 returns exactly
\* WEATHER_FALLBACK[m] and caches it under its key; a later call for that key
\* returns it again without any external call.
C4_NoLiveSourceGivesFallback ==
    last.op = "resolve" =>
       /\ (~last.cached_before /\ NoLiveSource(last.env) /\ last.month \in 1..12)
            => /\ last.result = WEATHER_FALLBACK[last.month]
               /\ last.key \in DOMAIN weather_cache
               /\ weather_cache[last.key] = WEATHER_FALLBACK[last.month]
       /\ (last.cached_before /\ first[last.key].no_live /\ last.month \in 1..12)
            => /\ last.result = WEATHER_FALLBACK[last.month]
               /\ last.geo_calls = 0
               /\ last.wx_calls = 0

\* the second call for a July key whose first call found no live source
C4_Witness ==
    /\ last.op = "resolve"
    /\ last.cached_before
    /\ first[last.key].no_live
    /\ last.month = 7
    /\ last.result = <<85, 15>>

----------------------------------------------------------------------------
(* Properties of feature computation                                       *)

\* C2: the tavg and prcp placed in the feature record are exactly the
\* observation _get_weather_data returned for the query, and
\* compute_features makes no geocoder or weather-provider call of its own.
C2_FeaturesAreTheResolvedObservation ==
    (last.op = "predict" /\ last.status = 200)
    => /\ last.features.tavg = last.resolved[1]
       /\ last.features.prcp = last.resolved[2]
       /\ last.own_geo = 0
       /\ last.own_wx = 0

\* the order of the feature vector, as the interface states it
C10_Order ==
    <<"tavg", "prcp", "hour", "day_of_week", "month", "is_weekend",
      "is_night", "is_rush_hour", "is_business_hours", "ZCTA5_freq_encoded",
      "season_encoded", "temp_category_encoded", "is_rainy", "loc_cluster">>

C10_InOrder(row, out) ==
    /\ out.ok
    /\ Len(out.vector) = 14
    /\ \A i \in 1..14 : out.vector[i] = row[C10_Order[i]]

\* C10: get_feature_vector on a record that holds the 14 named fields
\* returns exactly those 14 values in the stated order; on a record that
\* lacks one of them it fails with the missing-feature error and returns no
\* vector; and every record compute_features builds passes.
C10_FeatureVectorOrder ==
    /\ (last.op = "vector" /\ last.df # <<>>) =>
          IF \A i \in 1..14 : C10_Order[i] \in DOMAIN last.df[1]
          THEN C10_InOrder(last.df[1], last.out)
          ELSE /\ ~last.out.ok
               /\ last.out.error = "Missing feature"
               /\ last.out.vector = <<>>
    /\ (last.op = "features" /\ last.ok) =>
          /\ Len(last.df) = 1
          /\ C10_InOrder(last.df[1], last.out)

\* a record without its last feature is refused
C10_Witness ==
    /\ last.op = "vector"
    /\ last.df # <<>>
    /\ DOMAIN last.df[1] = DOMAIN SampleRow(encoders) \ {"loc_cluster"}
    /\ ~last.out.ok

----------------------------------------------------------------------------
(* Properties of the aggregation and of the classification                 *)

\* the estimators of a handle that produce a value
C5_Producing(model) ==
    SelectSeq(model.items, LAMBDA m : m.kind = "returns" /\ m.out # <<>>)

RECURSIVE C5_Total(_)
C5_Total(ests) ==
    IF ests = <<>> THEN 0 ELSE Head(ests).out[1] + C5_Total(Tail(ests))

\* C5: for a mapping of estimators, every estimator that has predict is
\* invoked, one without predict or whose call fails is skipped without
\* ending the loop, and the raw output is the arithmetic mean of exactly the
\* values produced; for a single estimator the raw output is its value.
C5_MeanOfSuccesses ==
    last.op = "aggregate" =>
       LET good == C5_Producing(last.model)
           raw == last.prediction.raw_output
       IN /\ (last.model.type = "dict" /\ good # <<>>) =>
                /\ raw.n = C5_Total(good)
                /\ raw.d = Len(good) * One
                /\ last.skips = Len(last.model.items) - Len(good)
                /\ last.calls = Cardinality({i \in 1..Len(last.model.items) :
                                    last.model.items[i].kind # "nopredict"})
          /\ (last.model.type = "single" /\ good # <<>>) =>
                raw = [n |-> good[1].out[1], d |-> One]

\* outcomes 0.2, a failure and 0.6 give 0.4 with one skip
C5_Witness ==
    /\ last.op = "aggregate"
    /\ last.model = DictModel(<<Returns(<<200000>>), Raises, Returns(<<600000>>)>>)
    /\ last.prediction.raw_output.n * 10 = 4 * last.prediction.raw_output.d
    /\ last.skips = 1

\* C6: when the handle is a mapping and no estimator produces a value, no
\* probability is substituted: the response is still a success with the
\* computed features and the feature vector, raw_output stays absent and the
\* failure shows only as a non-null prediction.error.
C6_ExhaustedEnsembleIsAnErrorField ==
    (/\ last.op = "predict"
     /\ last.model.type = "dict"
     /\ C5_Producing(last.model) = <<>>)
    => /\ last.status = 200
       /\ last.success
       /\ last.error = "None"
       /\ last.prediction.error # "None"
       /\ last.prediction.raw_output = NoRaw
       /\ last.features # NoFeatures
       /\ last.features.month = last.data.date[2]
       /\ Len(last.feature_vector) = 14

C6_Witness ==
    /\ last.op = "predict"
    /\ last.model = DictModel(<<NoPredict, Raises>>)
    /\ last.success
    /\ last.prediction.error = ErrFailed

\* C7: every prediction placed in a response has confidence in [0.5, 1] and
\* risk probability in [0, 1], on every path.
C7_ConfidenceInRange ==
    (last.op = "predict" /\ last.status = 200)
    => /\ 2 * last.prediction.confidence.n >= last.prediction.confidence.d
       /\ last.prediction.confidence.n <= last.prediction.confidence.d
       /\ 0 <= last.prediction.crime_rate.n
       /\ last.prediction.crime_rate.n <= last.prediction.crime_rate.d

\* the fraction r is exactly p millionths
FracIs(r, p) == r.d > 0 /\ r.d % One = 0 /\ r.n = p * (r.d \div One)

\* C8, as stated: 0.33 and 0.66 are both Medium, 0.329999 is Low and
\* 0.660001 is High.
C8_BoundariesAsStated ==
    (last.op = "aggregate" /\ last.prediction.raw_output # NoRaw)
    => LET p == last.prediction.raw_output
           c == last.prediction.crime_category
       IN /\ FracIs(p, 330000) => c = "Medium"
          /\ FracIs(p, 660000) => c = "Medium"
          /\ FracIs(p, 329999) => c = "Low"
          /\ FracIs(p, 660001) => c = "High"

\* C8, amended: 0.33 is Medium and 0.66 is High (each boundary value falls
\* in the higher bucket); 0.329999 is Low and 0.660001 is High.
C8_Boundaries ==
    (last.op = "aggregate" /\ last.prediction.raw_output # NoRaw)
    => LET p == last.prediction.raw_output
           c == last.prediction.crime_category
       IN /\ FracIs(p, 330000) => c = "Medium"
          /\ FracIs(p, 660000) => c = "High"
          /\ FracIs(p, 329999) => c = "Low"
          /\ FracIs(p, 660001) => c = "High"

C8_Witness ==
    /\ last.op = "aggregate"
    /\ FracIs(last.prediction.raw_output, 660000)
    /\ last.prediction.crime_category = "High"

\* C9: for a raw probability p of a successful aggregation, confidence is
\* max(p, 1 - p); is_good_prediction holds exactly when confidence >= 0.7;
\* the category is Low for p < 0.33, Medium for 0.33 <= p < 0.66 and High
\* for p >= 0.66; the message names higher risk exactly when reliable and
\* p >= 0.5, lower risk exactly when reliable and p < 0.5, and is the
\* low-confidence notice exactly when not reliable.
C9_ClassificationIsAFunctionOfP ==
    (last.op = "aggregate" /\ last.prediction.raw_output # NoRaw)
    => LET r == last.prediction
           p == r.raw_output
           half == 2 * p.n >= p.d
       IN /\ r.error = "None"
          /\ r.crime_rate = p
          /\ r.confidence.d = p.d
          /\ r.confidence.n = (IF half THEN p.n ELSE p.d - p.n)
          /\ r.is_good_prediction <=> (10 * r.confidence.n >= 7 * r.confidence.d)
          /\ r.crime_category = "Low" <=> 100 * p.n < 33 * p.d
          /\ r.crime_category = "Medium" <=>
                (100 * p.n >= 33 * p.d /\ 100 * p.n < 66 * p.d)
          /\ r.crime_category = "High" <=> 100 * p.n >= 66 * p.d
          /\ r.message = MsgHigher <=> (r.is_good_prediction /\ half)
          /\ r.message = MsgLower <=> (r.is_good_prediction /\ ~half)
          /\ r.message = MsgUncertain <=> ~r.is_good_prediction

\* p = 0.3: confidence is exactly 0.7, reliable, lower risk, Low
C9_Witness ==
    /\ last.op = "aggregate"
    /\ last.model = SingleModel(Returns(<<300000>>))
    /\ last.prediction.is_good_prediction
    /\ last.prediction.message = MsgLower
    /\ last.prediction.crime_category = "Low"

----------------------------------------------------------------------------
(* Properties of the handler's failure modes                               *)

\* a request body with date, time and zip_code present (a JSON null, an empty
\* string and the number 0 count as absent) and a date+time that parses,
\* stated on the body itself
C11_WellFormed(data) ==
    /\ data.date # <<>> /\ data.time # <<>>
    /\ data.zip_code.type # "none"
    /\ ~(data.zip_code.type = "str" /\ data.zip_code.text = <<>>)
    /\ ~(data.zip_code.type \in {"int", "float"} /\ data.zip_code.num = 0)
    /\ ValidDate(data.date) /\ ValidTime(data.time)

\* C11: a query is denied a response (success false) only when a field is
\* missing or its date+time does not parse, and then no weather lookup and no
\* cache write happened; every well-formed query gets a success response that
\* carries the computed features, whatever the weather sources, the encoder
\* artifacts, the model file and the estimators do.
C11_OnlyInvalidInputDenies ==
    last.op = "predict" =>
        /\ last.success <=> C11_WellFormed(last.data)
        /\ ~last.success =>
              /\ last.status \in {400, 500}
              /\ ~last.cache_written
              /\ last.res_geo = 0 /\ last.res_wx = 0
              /\ last.own_geo = 0 /\ last.own_wx = 0
        /\ last.success =>
              /\ last.status = 200
              /\ last.features # NoFeatures
              /\ Len(last.feature_vector) = Len(feature_order)

\* a well-formed query answered with success although the geocoder had no
\* coordinates, the encoder artifacts were absent and every estimator failed
C11_Witness ==
    /\ last.op = "predict"
    /\ last.success
    /\ last.prediction.error = ErrFailed
    /\ ~last.cached_before
    /\ last.resolved = <<45, 9>>
    /\ encoders = DefaultEncoders

----------------------------------------------------------------------------
(* _normalize_zip on its own                                               *)

ZipNumbers == (0..15) \cup {42, 501, 2134, 60601, 98144, 99999, 100000, 123456}

\* str arguments: plain digit strings, digit strings in whitespace, a float
\* printed as text, a ZIP+4 code, and strings that are no postal code at all
ZipStrings ==
    {NatDigits(n) : n \in ZipNumbers}
    \cup {<<" ">> \o NatDigits(n) \o <<" ", "\n">> : n \in {7, 2134, 60601}}
    \cup {Zip02134,
          Zip98144 \o <<".", "0">>,
          Zip98144 \o <<".", "5">>,
          Zip98144 \o <<"-", "1", "2", "3", "4">>,
          <<"-", "1", "2">>,
          <<".", "5">>,
          <<"a", "b", "c">>,
          <<"S", "W", "1", "A", " ", "1", "A", "A">>,
          <<" ", " ">>,
          <<>>}

ZipArgs ==
    {IntArg(n) : n \in ZipNumbers} \cup {FloatArg(n) : n \in ZipNumbers}
    \cup {StrArg(s) : s \in ZipStrings} \cup {NoneArg}

InitZip ==
    /\ encoders = DefaultEncoders
    /\ model_file = Absent
    /\ weather_cache = <<>>
    /\ lookups = <<>>
    /\ first = <<>>
    /\ last = NoCall
    /\ arg \in {[kind |-> "zip", zipcode |-> z] : z \in ZipArgs}
    /\ threads = <<>>

NormalizeCall ==
    /\ arg.kind = "zip"
    /\ last' = [op |-> "zip", zipcode |-> arg.zipcode,
                out |-> _normalize_zip(arg.zipcode)]
    /\ UNCHANGED <<encoders, model_file, weather_cache, lookups, first, arg, threads>>

SpecZip == InitZip /\ [][NormalizeCall]_vars

\* C12: for every input (int, float with trailing .0, or str, well-formed or
\* malformed) _normalize_zip returns a string of exactly 5 characters,
\* left-padded with zeros, and an int, the float of the same value and the
\* string of its digits give the identical string.
C12_FiveCharacters ==
    last.op = "zip" =>
        /\ Len(last.out) = 5
        /\ last.zipcode.type \in {"int", "float"} =>
              last.out = _normalize_zip(StrArg(IntStr(last.zipcode.num)))

----------------------------------------------------------------------------
(* Properties of artifact loading                                          *)

\* C13: the encoder bundle and the model artifact are each loaded once, at
\* process startup; handling a request never reads the model artifact, so
\* every request of the process is served by the same model object.
C13_LoadedOnceAtStartup ==
    last.op = "predict" => last.model_loads = 0

----------------------------------------------------------------------------
(* Concurrent requests: _get_weather_data run by several threads of the    *)
(* one feature_calculator, with no lock around check, fetch and insert     *)

Idle == [pc |-> "idle", key |-> NoKey, month |-> 0, date_str |-> <<>>,
         result |-> <<NoneV, NoneV>>]

\* the queries the threads make: one key under two spellings of the ZIP
\* code, and another key
RaceArgs ==
    {[zipcode |-> z, date_str |-> NovDate, month |-> 11] :
        z \in {Zip98144, Zip98144 \o <<".", "0">>}}
    \cup {[zipcode |-> Zip98144, date_str |-> <<>>, month |-> 6]}

\* what the collaborators answer to one thread's lookup
RaceEnvs ==
    {[geo |-> "nan", wx |-> WxRaises],
     [geo |-> "coords", wx |-> WxRaises],
     [geo |-> "coords", wx |-> WxRow(BothCols, 50, 0)],
     [geo |-> "coords", wx |-> WxRow(BothCols, 45, 9)]}

InitRace ==
    /\ encoders = DefaultEncoders
    /\ model_file = Absent
    /\ weather_cache = <<>>
    /\ lookups = <<>>
    /\ first = <<>>
    /\ last = NoCall
    /\ arg = NoArg
    /\ threads = [t \in 1..NumThreads |-> Idle]

\* lines 326-327: the call is entered and the key is built
RaceEnter(t) ==
    /\ threads[t].pc = "idle"
    /\ \E a \in RaceArgs :
          threads' = [threads EXCEPT ![t] =
              [pc |-> "check",
               key |-> CacheKey(_normalize_zip(StrArg(a.zipcode)), a.month,
                                a.date_str),
               month |-> a.month, date_str |-> a.date_str,
               result |-> <<NoneV, NoneV>>]]
    /\ UNCHANGED <<encoders, model_file, weather_cache, lookups, first, last,
                   arg>>

\* lines 330-332: the cache lookup; a hit returns the stored observation
RaceCheck(t) ==
    /\ threads[t].pc = "check"
    /\ threads' = [threads EXCEPT ![t] =
          IF CacheHit(weather_cache, threads[t].key)
          THEN [@ EXCEPT !.pc = "done",
                         !.result = weather_cache[threads[t].key]]
          ELSE [@ EXCEPT !.pc = "fetch"]]
    /\ UNCHANGED <<encoders, model_file, weather_cache, lookups, first, last,
                   arg>>

\* lines 334-373 and 378-380: the geocoder and the weather provider are
\* asked and the local result is computed
RaceFetch(t) ==
    /\ threads[t].pc = "fetch"
    /\ \E env \in RaceEnvs :
          threads' = [threads EXCEPT ![t] =
              [@ EXCEPT !.pc = "store",
                        !.result = FetchWeather(threads[t].month,
                                                threads[t].date_str,
                                                env).result]]
    /\ lookups' = DictSet(lookups, threads[t].key,
                          DictGet(lookups, threads[t].key, 0) + 1)
    /\ UNCHANGED <<encoders, model_file, weather_cache, first, last, arg>>

\* lines 345, 359, 375, 381: the insert, then the return
RaceStore(t) ==
    /\ threads[t].pc = "store"
    /\ weather_cache' = CacheStore(weather_cache, threads[t].key,
                                   threads[t].result)
    /\ threads' = [threads EXCEPT ![t] = [@ EXCEPT !.pc = "done"]]
    /\ UNCHANGED <<encoders, model_file, lookups, first, last, arg>>

NextRace ==
    \E t \in 1..NumThreads :
        RaceEnter(t) \/ RaceCheck(t) \/ RaceFetch(t) \/ RaceStore(t)

SpecRace == InitRace /\ [][NextRace]_vars

\* C14: when queries with the same cache key run the resolver concurrently,
\* the race only duplicates external fetches: a cache entry, once written,
\* is never replaced by a different observation, and the queries that share
\* a key return the same observation.
C14_RaceOnlyDuplicatesFetches ==
    [][/\ \A k \in DOMAIN weather_cache :
              weather_cache'[k] = weather_cache[k]
       /\ \A t, u \in 1..NumThreads :
              (/\ threads'[t].pc = "done" /\ threads'[u].pc = "done"
               /\ threads'[t].key = threads'[u].key)
              => threads'[t].result = threads'[u].result]_vars

----------------------------------------------------------------------------
(* compute_features over every hour of every day of one week               *)

\* the week of Monday 2025-06-09 to Sunday 2025-06-15
WeekDates == {<<2025, 6, d>> : d \in 9..15}

FlagArgs ==
    {[kind |-> "query",
      data |-> [date |-> d, time |-> <<h, 30, 0>>,
                zip_code |-> StrArg(Zip98144)],
      env |-> [geo |-> "coords", wx |-> WxRow(BothCols, 50, 0)],
      env2 |-> NoEnv] : d \in WeekDates, h \in 0..23}

InitFlags ==
    /\ encoders = DefaultEncoders
    /\ model_file = Absent
    /\ weather_cache = <<>>
    /\ lookups = <<>>
    /\ first = <<>>
    /\ last = NoCall
    /\ arg \in FlagArgs
    /\ threads = <<>>

SpecFlags == InitFlags /\ [][FeaturesCall]_vars

\* the day of the week of a date of WeekDates, Monday = 0, from the calendar
C15_Weekday(date) == date[3] - 9

\* C15: for every hour 0..23 and every day of the week 0..6 (Monday = 0),
\* is_weekend = 1 exactly on days 5 and 6, is_night = 1 exactly when
\* hour >= 18 or hour <= 6, is_rush_hour = 1 exactly for hours 7..9 and
\* 16..18, is_business_hours = 1 exactly for hours 9..17 on days 0..4; so
\* is_business_hours and is_weekend are never both 1.
C15_CalendarFlags ==
    last.op = "features" =>
        LET row == last.df[1]
            hour == arg.data.time[1]
            dow == C15_Weekday(arg.data.date)
        IN /\ last.ok
           /\ row.hour = hour
           /\ row.day_of_week = dow
           /\ row.is_weekend = (IF dow \in {5, 6} THEN 1 ELSE 0)
           /\ row.is_night = (IF hour \in (18..23) \cup (0..6) THEN 1 ELSE 0)
           /\ row.is_rush_hour =
                  (IF hour \in (7..9) \cup (16..18) THEN 1 ELSE 0)
           /\ row.is_business_hours =
                  (IF hour \in 9..17 /\ dow \in 0..4 THEN 1 ELSE 0)
           /\ ~(row.is_business_hours = 1 /\ row.is_weekend = 1)

\* Saturday 2025-06-14 at 10:30: a weekend day inside the 9..17 hours
C15_Witness ==
    /\ last.op = "features"
    /\ arg.data.date = <<2025, 6, 14>>
    /\ arg.data.time[1] = 10
    /\ last.df[1].is_weekend = 1
    /\ last.df[1].is_business_hours = 0
    /\ last.df[1].day_of_week = 5

----------------------------------------------------------------------------
(* Properties of the location cluster                                      *)

====
